---- MODULE Spec2Model ----
(***************************************************************************)
(* Model of the request pipeline of the Transcendence backend:             *)
(*   - MistralProvider (services/mistral_provider.py): generate_text, its  *)
(*     TTLCache and the mock fallback;                                     *)
(*   - SafetyAgent (agents/safety_agent.py);                               *)
(*   - RouterAgent (agents/router_agent.py);                               *)
(*   - process_request (api/v1/assistant.py).                              *)
(*                                                                         *)
(* Text is modelled at the level the code reads it.  A str is a sequence   *)
(* of one-character strings; lower(), the in-operator, find/rfind and the  *)
(* \b(..|..)\b patterns are computed on those sequences.  Numbers with one *)
(* decimal (0.7, temperature, confidence) are integers in tenths.          *)
(***************************************************************************)
EXTENDS Integers, Sequences, FiniteSets, TLC

(***************************************************************************)
(* str helpers                                                             *)
(***************************************************************************)

\* s[i .. i+Len(kw)-1] = kw
MatchAt(kw, s, i) ==
    /\ i >= 1
    /\ i + Len(kw) - 1 <= Len(s)
    /\ \A j \in 1..Len(kw) : s[i + j - 1] = kw[j]

\* Python: kw in s
IsSubstr(kw, s) == \E i \in 1..(Len(s) - Len(kw) + 1) : MatchAt(kw, s, i)

\* Python: any(word in s for word in words)
AnyIn(words, s) == \E w \in words : IsSubstr(w, s)

\* str.lower() on the letters the model's texts use
LowerMap ==
    [c \in {"A","B","C","D","E","F","G","H","I","J","K","L","M","N","O","P","Q",
            "R","S","T","U","V","W","X","Y","Z","Ç","Ã","Ê","Ó"} |->
       CASE c = "A" -> "a" [] c = "B" -> "b" [] c = "C" -> "c" [] c = "D" -> "d"
         [] c = "E" -> "e" [] c = "F" -> "f" [] c = "G" -> "g" [] c = "H" -> "h"
         [] c = "I" -> "i" [] c = "J" -> "j" [] c = "K" -> "k" [] c = "L" -> "l"
         [] c = "M" -> "m" [] c = "N" -> "n" [] c = "O" -> "o" [] c = "P" -> "p"
         [] c = "Q" -> "q" [] c = "R" -> "r" [] c = "S" -> "s" [] c = "T" -> "t"
         [] c = "U" -> "u" [] c = "V" -> "v" [] c = "W" -> "w" [] c = "X" -> "x"
         [] c = "Y" -> "y" [] c = "Z" -> "z" [] c = "Ç" -> "ç" [] c = "Ã" -> "ã"
         [] c = "Ê" -> "ê" [] c = "Ó" -> "ó"]

Lower(s) == [i \in 1..Len(s) |-> IF s[i] \in DOMAIN LowerMap THEN LowerMap[s[i]] ELSE s[i]]

(***************************************************************************)
(* MistralProvider                                                         *)
(***************************************************************************)

\* settings.CACHE_MAX_SIZE and settings.CACHE_TTL are environment-driven
\* (core/config.py:62-63); the model runs them at small values.
CacheMaxSize == 2
CacheTTL == 1
\* Ticks of the cache timer the model lets pass.
MaxTime == 2

\* settings.DEFAULT_TEMPERATURE = 0.7 (tenths) and settings.MAX_TOKENS
DEFAULT_TEMPERATURE == 7
MAX_TOKENS == 500

\* Python None as a numeric argument (temperature: float = None)
NoneArg == -1

\* Prompts and system prompts of the provider's callers, as str.
Prompts == {<<"J","o","b">>, <<"J","o","b",":","x">>, <<"h","i">>}
SystemPrompts == {<< >>, <<"x",":">>}

\* A call signature of generate_text: prompt, system_prompt, temperature,
\* max_tokens and the extra generation parameters (**kwargs: top_p).
AllSignatures ==
    [prompt : Prompts, system_prompt : SystemPrompts, temperature : {0, 7, 9},
     max_tokens : {NoneArg, 500}, top_p : {5, 9}]

BaseSignature ==
    [prompt |-> <<"J","o","b">>, system_prompt |-> << >>, temperature |-> 7,
     max_tokens |-> 500, top_p |-> 9]

\* The calls the model issues: the base call and every call that differs from
\* it in exactly one argument.
Signatures ==
    {s \in AllSignatures : Cardinality({f \in DOMAIN s : s[f] # BaseSignature[f]}) <= 1}

\* Python: x or default  (None and 0 / 0.0 are falsy)
OrDefault(x, default) == IF x = NoneArg \/ x = 0 THEN default ELSE x

\* _generate_cache_key: md5 of f"{prompt}:{system_prompt}:{json.dumps(kwargs,
\* sort_keys=True)}" with kwargs = {temperature, max_tokens}.  The digest is
\* modelled by the digested content (md5 taken as collision-free on the
\* model's inputs); sort_keys puts max_tokens before temperature.
GenerateCacheKey(prompt, system_prompt, temperature, max_tokens) ==
    [content |-> prompt \o <<":">> \o system_prompt \o <<":">>,
     kwargs  |-> <<max_tokens, temperature>>]

\* The key generate_text computes for a signature (lines 81-85): the
\* defaults are applied first, **kwargs are not passed on.
KeyOf(sig) ==
    GenerateCacheKey(sig.prompt, sig.system_prompt,
                     OrDefault(sig.temperature, DEFAULT_TEMPERATURE),
                     OrDefault(sig.max_tokens, MAX_TOKENS))

\* settings.AWS_MISTRAL_MODEL
AWS_MISTRAL_MODEL == "mistral.mistral-7b-instruct-v0:2"

\* What the upstream model may answer to one invoke_model call.
UpstreamTexts == {"t1", "t2"}

\* _generate_mock_response, lines 177-181: the words looked for
MockWords ==
    [career |->
    {<<"c","a","r","r","e","i","r","a">>,
     <<"e","m","p","r","e","g","o">>,
     <<"t","r","a","b","a","l","h","o">>,
     <<"c","a","r","e","e","r">>,
     <<"j","o","b">>},
 learning |->
    {<<"c","u","r","s","o">>,
     <<"t","r","e","i","n","a","m","e","n","t","o">>,
     <<"a","p","r","e","n","d","e","r">>,
     <<"l","e","a","r","n","i","n","g">>,
     <<"t","r","a","i","n","i","n","g">>},
 pathway |->
    {<<"c","a","m","i","n","h","o">>,
     <<"p","l","a","n","o">>,
     <<"p","r","ó","x","i","m","o","s"," ","p","a","s","s","o","s">>,
     <<"p","a","t","h","w","a","y">>,
     <<"p","l","a","n">>}]

\* _generate_mock_response, lines 168-188: which canned text is chosen, and
\* whether the temperature > 0.7 sentence is appended to it.
MockText(prompt, temperature) ==
    LET prompt_lower == Lower(prompt)
        kind == IF AnyIn(MockWords.career, prompt_lower) THEN "mock_career"
                ELSE IF AnyIn(MockWords.learning, prompt_lower) THEN "mock_learning"
                ELSE IF AnyIn(MockWords.pathway, prompt_lower) THEN "mock_pathway"
                ELSE "mock_awareness"
    IN  [body |-> kind, suffix |-> temperature > 7]

\* A mock response that does not say it is one.
MockResponseUnflagged(prompt, temperature) ==
    [text |-> MockText(prompt, temperature), model |-> "mock-mistral-7b",
     mock_mode |-> FALSE]

\* _generate_mock_response, lines 192-202 (the fields the callers read)
MockResponse(prompt, temperature) ==
    [text |-> MockText(prompt, temperature), model |-> "mock-mistral-7b",
     mock_mode |-> TRUE]

\* _generate_real_response, lines 137-147, for an upstream answer
RealResponse(text) ==
    [text |-> [body |-> text, suffix |-> FALSE], model |-> AWS_MISTRAL_MODEL,
     mock_mode |-> FALSE]

\* No response (a call that has not returned one).
NoResponse == [text |-> [body |-> "", suffix |-> FALSE], model |-> "", mock_mode |-> FALSE]

(***************************************************************************)
(* cachetools.TTLCache as MistralProvider uses it.  The cache is the       *)
(* sequence of its links in OrderedDict order (first = next to be popped); *)
(* an entry is [key, value, expires] plus sig, the signature of the call   *)
(* that stored it (history, not read by the code).                         *)
(***************************************************************************)

Keys(c) == {c[i].key : i \in 1..Len(c)}

\* TTLCache.__contains__: the link exists and timer() < link.expires
CacheContainsFlipped(c, key, t) ==
    \E i \in 1..Len(c) : c[i].key = key /\ t > c[i].expires

\* __contains__ without the time-to-live.
CacheContainsIgnoringTTL(c, key, t) ==
    \E i \in 1..Len(c) : c[i].key = key

CacheContains(c, key, t) ==
    \E i \in 1..Len(c) : c[i].key = key /\ t < c[i].expires

EntryOf(c, key) == c[CHOOSE i \in 1..Len(c) : c[i].key = key]

Without(c, key) == SelectSeq(c, LAMBDA e : e.key # key)

\* TTLCache.__getitem__ on a live key: __getlink moves the link to the end
CacheTouchNoMove(c, key) == c

CacheTouch(c, key) == Without(c, key) \o <<EntryOf(c, key)>>

\* TTLCache.expire(time): drop every entry with not (time < expires)
Expire(c, t) == SelectSeq(c, LAMBDA e : t < e.expires)

\* TTLCache.popitem, after expire: remove next(iter(links))
PopItem(c) == Tail(c)

\* __setitem__ without eviction.
MakeRoomNever(c) == c

\* Cache.__setitem__: while currsize + size > maxsize: popitem()
RECURSIVE MakeRoom(_)
MakeRoom(c) == IF Len(c) + 1 > CacheMaxSize THEN MakeRoom(PopItem(c)) ELSE c

\* __setitem__ that adds a link even when the key has one.
CacheSetAppending(c, key, value, sig, t) ==
    MakeRoom(Expire(c, t))
        \o <<[key |-> key, value |-> value, expires |-> t + CacheTTL, sig |-> sig]>>

\* TTLCache.__setitem__(key, value) at timer value t
CacheSet(c, key, value, sig, t) ==
    LET c1 == Expire(c, t)
        c2 == IF key \in Keys(c1) THEN Without(c1, key) ELSE MakeRoom(c1)
    IN  c2 \o <<[key |-> key, value |-> value, expires |-> t + CacheTTL, sig |-> sig]>>


(***************************************************************************)
(* Requests and numbers                                                    *)
(***************************************************************************)

\* Most words of a composed user message.
MaxWords == 2

\* The words user messages are composed of.
Words ==
    [quero |-> <<"q","u","e","r","o">>,
     curso |-> <<"c","u","r","s","o">>,
     emprego |-> <<"e","m","p","r","e","g","o">>,
     plano |-> <<"p","l","a","n","o">>,
     habilidade |-> <<"h","a","b","i","l","i","d","a","d","e">>,
     Matar |-> <<"M","a","t","a","r">>,
     matar |-> <<"m","a","t","a","r">>,
     machucar |-> <<"m","a","c","h","u","c","a","r">>,
     cpf |-> <<"c","p","f">>,
     fazer |-> <<"f","a","z","e","r">>,
     um |-> <<"u","m">>,
     de |-> <<"d","e">>,
     energia |-> <<"e","n","e","r","g","i","a">>,
     solar |-> <<"s","o","l","a","r">>,
     em |-> <<"e","m">>,
     carreira |-> <<"c","a","r","r","e","i","r","a">>,
     trabalho |-> <<"t","r","a","b","a","l","h","o">>,
     educacao |-> <<"e","d","u","c","a","ç","ã","o">>,
     profissional |-> <<"p","r","o","f","i","s","s","i","o","n","a","l">>,
     desenvolvimento |-> <<"d","e","s","e","n","v","o","l","v","i","m","e","n","t","o">>,
     garanto |-> <<"g","a","r","a","n","t","o">>,
     investir |-> <<"i","n","v","e","s","t","i","r">>,
     risco |-> <<"r","i","s","c","o">>]

\* Python: " ".join(words)
RECURSIVE Join(_)
Join(words) ==
    IF words = << >> THEN << >>
    ELSE IF Len(words) = 1 THEN words[1]
    ELSE words[1] \o <<" ">> \o Join(Tail(words))

\* The word sequences of at most n words over a lexicon.
WordSeqs(lexicon, n) == UNION {[1..k -> lexicon] : k \in 1..n}

\* LanguageCode (models/__init__.py)
LanguageCodes == {"pt-BR", "en"}

\* An AssistantRequest: message and language; words records how the message
\* was composed (message = " ".join(words)).
RequestOf(words, language) ==
    [words |-> words, message |-> Join(words), language |-> language]

\* The message of spec scenario A.
ScenarioAWords == <<Words.quero, Words.fazer, Words.um, Words.curso, Words.de, Words.energia, Words.solar>>

NoRequest == [words |-> << >>, message |-> << >>, language |-> "en"]

\* A Python float: a finite value in tenths, nan or inf.
Num(v) == [nan |-> FALSE, inf |-> 0, v |-> v]
NaN == [nan |-> TRUE, inf |-> 0, v |-> 0]
PosInf == [nan |-> FALSE, inf |-> 1, v |-> 0]

\* a < b on floats: every comparison with nan is False
PyLt(a, b) ==
    /\ ~a.nan
    /\ ~b.nan
    /\ (a.inf < b.inf \/ (a.inf = b.inf /\ a.v < b.v))

\* Python max(a, b) and min(a, b): the second argument replaces the first only
\* when it compares greater (smaller).
PyMax(a, b) == IF PyLt(a, b) THEN b ELSE a
PyMin(a, b) == IF PyLt(b, a) THEN b ELSE a

\* float(s) for a str: the literals float() accepts; any other str raises
\* ValueError.
FloatLiterals == {"0.0", "0.2", "0.5", "0.9", "1.0", "1.5", "-0.3", "nan", "inf"}

FloatOf(s) ==
    CASE s = "0.0" -> Num(0)
      [] s = "0.2" -> Num(2)
      [] s = "0.5" -> Num(5)
      [] s = "0.9" -> Num(9)
      [] s = "1.0" -> Num(10)
      [] s = "1.5" -> Num(15)
      [] s = "-0.3" -> Num(-3)
      [] s = "nan" -> NaN
      [] s = "inf" -> PosInf

\* x in list
InSeq(x, s) == \E i \in 1..Len(s) : s[i] = x

\* What one generate_text call gives its caller (see MistralProvider above):
\* the configured mock text, the upstream answer, the mock text after an
\* upstream failure, or a cached response, which is one of these stored by an
\* earlier call.  generate_text catches the upstream failure itself, so no
\* outcome raises.
Outcome(via, upstream, mock, payload) ==
    [via |-> via, upstream |-> upstream, raised |-> FALSE, mock_mode |-> mock,
     payload |-> payload]

GenerateTextOutcomes(mock, answers, mockPayload) ==
    LET fresh == IF mock
                 THEN {Outcome("mock", "none", TRUE, mockPayload)}
                 ELSE {Outcome("upstream", "ok", FALSE, a) : a \in answers}
                      \cup {Outcome("fallback", "fail", TRUE, mockPayload)}
    IN  fresh \cup {Outcome("cache", "none", o.mock_mode, o.payload) : o \in fresh}

NoOutcome == [via |-> "", upstream |-> "none", raised |-> FALSE, mock_mode |-> FALSE,
              payload |-> << >>]

(***************************************************************************)
(* SafetyAgent                                                             *)
(***************************************************************************)


\* The categories in the order of the unsafe_patterns dict.
RiskCategories ==
    <<"violence", "inappropriate_content", "illegal_activities", "financial_scams",
      "personal_info">>

\* unsafe_patterns: per category, the alternatives of its two patterns
\* r'\b(..|..)\b' (Portuguese and English).
UnsafePatterns(category) ==
    CASE category = "violence" ->
           {<<"v","i","o","l","ê","n","c","i","a">>,
            <<"a","g","r","e","s","s","ã","o">>,
            <<"b","r","i","g","a">>,
            <<"p","a","n","c","a","d","a">>,
            <<"m","a","c","h","u","c">>,
            <<"m","a","t","a","r">>,
            <<"m","o","r","r","e","r">>,
            <<"s","u","i","c","i","d">>,
            <<"v","i","o","l","e","n","c","e">>,
            <<"a","g","g","r","e","s","s","i","o","n">>,
            <<"f","i","g","h","t">>,
            <<"h","u","r","t">>,
            <<"k","i","l","l">>,
            <<"d","i","e">>,
            <<"s","u","i","c","i","d","e">>}
      [] category = "inappropriate_content" ->
           {<<"s","e","x","o">>,
            <<"s","e","x","u","a","l">>,
            <<"p","o","r","n","o","g","r","a","f","i","a">>,
            <<"n","u","d","e">>,
            <<"d","e","s","p","i","r">>,
            <<"s","e","x">>,
            <<"p","o","r","n","o","g","r","a","p","h","y">>,
            <<"n","a","k","e","d">>}
      [] category = "illegal_activities" ->
           {<<"d","r","o","g","a","s">>,
            <<"m","a","c","o","n","h","a">>,
            <<"c","o","c","a","í","n","a">>,
            <<"t","r","á","f","i","c","o">>,
            <<"r","o","u","b","o">>,
            <<"f","u","r","t","o">>,
            <<"d","r","u","g","s">>,
            <<"m","a","r","i","j","u","a","n","a">>,
            <<"c","o","c","a","i","n","e">>,
            <<"t","r","a","f","f","i","c","k","i","n","g">>,
            <<"t","h","e","f","t">>,
            <<"s","t","e","a","l">>}
      [] category = "financial_scams" ->
           {<<"e","s","q","u","e","m","a">>,
            <<"p","i","r","â","m","i","d","e">>,
            <<"d","i","n","h","e","i","r","o"," ","f","á","c","i","l">>,
            <<"g","a","n","h","a","r"," ","m","u","i","t","o">>,
            <<"s","e","m"," ","e","s","f","o","r","ç","o">>,
            <<"s","c","h","e","m","e">>,
            <<"p","y","r","a","m","i","d">>,
            <<"e","a","s","y"," ","m","o","n","e","y">>,
            <<"g","e","t"," ","r","i","c","h">>,
            <<"n","o"," ","e","f","f","o","r","t">>}
      [] category = "personal_info" ->
           {<<"c","p","f">>,
            <<"r","g">>,
            <<"e","n","d","e","r","e","ç","o">>,
            <<"t","e","l","e","f","o","n","e">>,
            <<"s","e","n","h","a">>,
            <<"c","a","r","t","ã","o">>,
            <<"s","s","n">>,
            <<"a","d","d","r","e","s","s">>,
            <<"p","h","o","n","e">>,
            <<"p","a","s","s","w","o","r","d">>,
            <<"c","r","e","d","i","t"," ","c","a","r","d">>}

\* positive_indicators
PositiveIndicators ==
    <<<<"s","u","s","t","e","n","t","a","b","i","l","i","d","a","d","e">>,
      <<"m","e","i","o"," ","a","m","b","i","e","n","t","e">>,
      <<"c","a","r","r","e","i","r","a">>,
      <<"e","d","u","c","a","ç","ã","o">>,
      <<"c","u","r","s","o">>,
      <<"t","r","a","b","a","l","h","o">>,
      <<"p","r","o","f","i","s","s","i","o","n","a","l">>,
      <<"d","e","s","e","n","v","o","l","v","i","m","e","n","t","o">>,
      <<"s","u","s","t","a","i","n","a","b","i","l","i","t","y">>,
      <<"e","n","v","i","r","o","n","m","e","n","t">>,
      <<"c","a","r","e","e","r">>,
      <<"e","d","u","c","a","t","i","o","n">>,
      <<"c","o","u","r","s","e">>,
      <<"w","o","r","k">>,
      <<"p","r","o","f","e","s","s","i","o","n","a","l">>,
      <<"d","e","v","e","l","o","p","m","e","n","t">>>>

\* Characters that are not \w in the model's texts.
NonWordChars == {" ", ",", ".", ":", "!", "?", "\"", "%"}
IsWordChar(c) == c \notin NonWordChars

\* \b at position i of s (between s[i-1] and s[i])
WordBoundary(s, i) ==
    (i > 1 /\ IsWordChar(s[i - 1])) # (i <= Len(s) /\ IsWordChar(s[i]))

\* re.search(r'\b(alt1|alt2|..)\b', s)
ReSearch(alts, s) ==
    \E w \in alts : \E i \in 1..(Len(s) - Len(w) + 1) :
        /\ MatchAt(w, s, i)
        /\ WordBoundary(s, i)
        /\ WordBoundary(s, i + Len(w))

\* _quick_safety_check, line 110
QuickIsSafeIgnoringRisk(risk_score, total_score) == total_score >= 0

QuickIsSafe(risk_score, total_score) == risk_score = 0 /\ total_score >= 0

\* _quick_safety_check
QuickSafetyCheck(message) ==
    LET message_lower == Lower(message)
        risk_categories ==
            SelectSeq(RiskCategories, LAMBDA c : ReSearch(UnsafePatterns(c), message_lower))
        positive_score ==
            Cardinality({i \in 1..Len(PositiveIndicators) :
                           IsSubstr(PositiveIndicators[i], message_lower)})
        risk_score == Len(risk_categories)
        total_score == IF positive_score - risk_score * 2 > 0
                       THEN positive_score - risk_score * 2 ELSE 0
    IN  [is_safe |-> QuickIsSafe(risk_score, total_score),
         risk_categories |-> risk_categories,
         positive_score |-> positive_score,
         total_score |-> total_score]

NoQuickCheck ==
    [is_safe |-> TRUE, risk_categories |-> << >>, positive_score |-> 0, total_score |-> 0]

\* _get_safety_message: the message is identified by its language and by the
\* category it addresses.
GetSafetyMessage(risk_categories, language) ==
    [language |-> IF language = "pt-BR" THEN "pt-BR" ELSE "en",
     about |-> IF InSeq("violence", risk_categories) THEN "violence"
               ELSE IF InSeq("inappropriate_content", risk_categories)
                    THEN "inappropriate_content"
               ELSE IF InSeq("illegal_activities", risk_categories)
                    THEN "illegal_activities"
               ELSE IF InSeq("financial_scams", risk_categories) THEN "financial_scams"
               ELSE IF InSeq("personal_info", risk_categories) THEN "personal_info"
               ELSE "general"]

\* No safety_message key in the result.
NoMessage == [language |-> "", about |-> ""]

\* A line of a Stage B answer, after line.strip(): head is the text before the
\* first colon, rest the text after it, stripped, as its comma-separated items
\* (each stripped).  A line without a label has its text in head.
Line(head, rest) == [head |-> head, rest |-> rest]

\* str.upper() and str.lower() on the items of the answers
Upper(item) ==
    CASE item = "seguro" -> "SEGURO"
      [] item = "bloquear" -> "BLOQUEAR"
      [] item = "revisar" -> "REVISAR"
      [] item \in {"SEGURO", "INSEGURO", "MODERADO", "BLOQUEAR", "REVISAR", "PERMITIR"} -> item

LowerItem(item) ==
    CASE item = "Nenhum" -> "nenhum"
      [] item = "Violence" -> "violence"
      [] item \in {"nenhum", "none", "violence", "personal_info", ""} -> item

\* The parser with a score line that zeroes the score when its value is not
\* a number.
ParseSafetyLineZeroing(line, result) ==
    IF line.head = "SEGURANÇA"
    THEN [result EXCEPT !.is_safe =
            (Len(line.rest) = 1 /\ Upper(line.rest[1]) = "SEGURO")]
    ELSE IF line.head = "PONTUAÇÃO"
    THEN IF Len(line.rest) = 1 /\ line.rest[1] \in FloatLiterals
         THEN [result EXCEPT !.safety_score =
                 PyMax(Num(0), PyMin(Num(10), FloatOf(line.rest[1])))]
         ELSE [result EXCEPT !.safety_score = Num(0)]
    ELSE IF line.head = "RISCOS"
    THEN LET risks == [i \in 1..Len(line.rest) |-> LowerItem(line.rest[i])]
         IN  IF risks # <<"nenhum">> /\ risks # <<"none">>
             THEN [result EXCEPT !.risk_categories = risks]
             ELSE result
    ELSE IF line.head = "RECOMENDAÇÃO"
    THEN LET recommendation == [i \in 1..Len(line.rest) |-> Upper(line.rest[i])]
         IN  IF recommendation = <<"BLOQUEAR">>
             THEN [result EXCEPT !.action_required = "block_request", !.is_safe = FALSE]
             ELSE IF recommendation = <<"REVISAR">>
             THEN [result EXCEPT !.action_required = "proceed_with_caution"]
             ELSE [result EXCEPT !.action_required = "proceed"]
    ELSE result

\* _parse_safety_response, lines 193-220: one line applied to the result
ParseSafetyLine(line, result) ==
    IF line.head = "SEGURANÇA"
    THEN [result EXCEPT !.is_safe =
            (Len(line.rest) = 1 /\ Upper(line.rest[1]) = "SEGURO")]
    ELSE IF line.head = "PONTUAÇÃO"
    THEN IF Len(line.rest) = 1 /\ line.rest[1] \in FloatLiterals
         THEN [result EXCEPT !.safety_score =
                 PyMax(Num(0), PyMin(Num(10), FloatOf(line.rest[1])))]
         ELSE result
    ELSE IF line.head = "RISCOS"
    THEN LET risks == [i \in 1..Len(line.rest) |-> LowerItem(line.rest[i])]
         IN  IF risks # <<"nenhum">> /\ risks # <<"none">>
             THEN [result EXCEPT !.risk_categories = risks]
             ELSE result
    ELSE IF line.head = "RECOMENDAÇÃO"
    THEN LET recommendation == [i \in 1..Len(line.rest) |-> Upper(line.rest[i])]
         IN  IF recommendation = <<"BLOQUEAR">>
             THEN [result EXCEPT !.action_required = "block_request", !.is_safe = FALSE]
             ELSE IF recommendation = <<"REVISAR">>
             THEN [result EXCEPT !.action_required = "proceed_with_caution"]
             ELSE [result EXCEPT !.action_required = "proceed"]
    ELSE result

RECURSIVE ParseSafetyLines(_, _)
ParseSafetyLines(lines, result) ==
    IF lines = << >> THEN result
    ELSE ParseSafetyLines(Tail(lines), ParseSafetyLine(Head(lines), result))

\* _parse_safety_response
ParseSafetyResponse(lines) ==
    LET result == ParseSafetyLines(lines,
                     [is_safe |-> TRUE, safety_score |-> Num(8), risk_categories |-> << >>,
                      action_required |-> "proceed", safety_message |-> NoMessage,
                      fallback_used |-> FALSE])
    IN  IF ~result.is_safe
        THEN [result EXCEPT !.safety_message = GetSafetyMessage(result.risk_categories, "pt-BR")]
        ELSE result

\* _comprehensive_safety_check, lines 125-148
ComprehensiveSafetyCheck(outcome) ==
    IF outcome.raised
    THEN [is_safe |-> TRUE, safety_score |-> Num(7), risk_categories |-> << >>,
          action_required |-> "proceed_with_caution",
          safety_message |-> [language |-> "pt-BR", about |-> "simplified"],
          fallback_used |-> TRUE]
    ELSE ParseSafetyResponse(outcome.payload)

\* process, lines 69-75: the verdict when the quick check fails
BlockedResult(quick_check, language) ==
    [is_safe |-> FALSE, safety_score |-> Num(2),
     risk_categories |-> quick_check.risk_categories,
     action_required |-> "block_request",
     safety_message |-> GetSafetyMessage(quick_check.risk_categories, language),
     fallback_used |-> FALSE]

NoResult ==
    [is_safe |-> TRUE, safety_score |-> Num(0), risk_categories |-> << >>,
     action_required |-> "", safety_message |-> NoMessage, fallback_used |-> FALSE]

\* _build_safety_prompt: of the template, the words the mock generator looks
\* for, then the message.
BuildSafetyPrompt(request) ==
    <<"c","a","r","r","e","i","r","a","s"," ","v","e","r","d","e","s",":"," ">>
        \o request.message

\* The lines of a canned mock text: one line of prose, whichever text it is.
MockSafetyLines(text) == <<Line(text.body, <<"">>)>>

\* Most lines of a Stage B answer.
MaxLines == 2

\* The lines the upstream model may put into a Stage B answer.
SafetyLinePool ==
    {Line("SEGURANÇA", <<"SEGURO">>),
     Line("SEGURANÇA", <<"INSEGURO">>),
     Line("PONTUAÇÃO", <<"0.9">>),
     Line("PONTUAÇÃO", <<"alta">>),
     Line("PONTUAÇÃO", <<"1.5">>),
     Line("PONTUAÇÃO", <<"nan">>),
     Line("RISCOS", <<"nenhum">>),
     Line("RISCOS", <<"violence">>),
     Line("RECOMENDAÇÃO", <<"BLOQUEAR">>),
     Line("RECOMENDAÇÃO", <<"REVISAR">>),
     Line("Claro, segue a análise", <<"">>)}

SafetyAnswers == UNION {[1..k -> SafetyLinePool] : k \in 0..MaxLines}

\* The words of the messages submitted to the safety check.
SafetyLexicon == {Words.quero, Words.curso, Words.Matar, Words.matar, Words.machucar, Words.cpf}

SafetyRequests ==
    {RequestOf(ws, l) : ws \in WordSeqs(SafetyLexicon, MaxWords), l \in LanguageCodes}

\* validate_response_safety, lines 296 and 300-301: the alternatives of the
\* two patterns and the two words that excuse financial advice
ResponsePatterns ==
    [promises |-> {<<"g","a","r","a","n","t","o">>,
                   <<"p","r","o","m","e","t","o">>,
                   <<"c","e","r","t","e","z","a">>,
                   <<"1","0","0","%">>,
                   <<"s","e","m"," ","r","i","s","c","o">>},
     financial |-> {<<"i","n","v","e","s","t","i","r">>,
                    <<"i","n","v","e","s","t","i","m","e","n","t","o">>,
                    <<"a","ç","õ","e","s">>,
                    <<"b","i","t","c","o","i","n">>},
     excuses |-> {<<"d","i","s","c","l","a","i","m","e","r">>,
                  <<"r","i","s","c","o">>}]

\* validate_response_safety: the quick check of the text, the two
\* response-specific risks (lines 293-302), and the score of line 306,
\* max(0.1, total_score / 5 - n * 0.2), in tenths
ValidateResponseSafety(response_text) ==
    LET quick_check == QuickSafetyCheck(response_text)
        response_risks ==
            (IF ReSearch(ResponsePatterns.promises, Lower(response_text))
             THEN <<"unrealistic_promises">> ELSE << >>)
            \o (IF /\ ReSearch(ResponsePatterns.financial, Lower(response_text))
                   /\ ~AnyIn(ResponsePatterns.excuses, Lower(response_text))
                THEN <<"financial_advice_without_disclaimer">> ELSE << >>)
        score == quick_check.total_score * 2 - Len(response_risks) * 2
    IN  [valid |-> TRUE,
         response_text |-> response_text,
         is_response_safe |-> quick_check.is_safe /\ Len(response_risks) = 0,
         response_safety_score |-> IF score > 1 THEN Num(score) ELSE Num(1),
         response_risks |-> quick_check.risk_categories \o response_risks]

NoValidation ==
    [valid |-> FALSE, response_text |-> << >>, is_response_safe |-> TRUE,
     response_safety_score |-> Num(0), response_risks |-> << >>]

\* The outbound texts submitted to validate_response_safety: short texts over
\* a lexicon, and one sentence naming six of the positive indicators.
ResponseTexts ==
    {Join(ws) : ws \in WordSeqs({Words.curso, Words.carreira, Words.garanto,
                                 Words.investir, Words.risco, Words.matar}, MaxWords)}
    \cup {Join(<<Words.carreira, Words.educacao, Words.curso, Words.trabalho,
                 Words.profissional, Words.desenvolvimento>>)}

(***************************************************************************)
(* RouterAgent                                                             *)
(***************************************************************************)

\* A JSON value of a routing answer: number, string, null or array of strings.
JNum(f) == [type |-> "number", num |-> f, str |-> "", items |-> << >>]
JStr(s) == [type |-> "string", num |-> Num(0), str |-> s, items |-> << >>]
JNull == [type |-> "null", num |-> Num(0), str |-> "", items |-> << >>]
JList(items) == [type |-> "array", num |-> Num(0), str |-> "", items |-> items]

\* The text of a routing answer, as the units _parse_routing_response and
\* json.loads tell apart: an opening brace, a closing brace, a member
\* "name": value (with its separating comma), and any run of other text.
Open == [t |-> "{", name |-> "", value |-> JNull]
Close == [t |-> "}", name |-> "", value |-> JNull]
Prose == [t |-> "prose", name |-> "", value |-> JNull]
Field(name, value) == [t |-> "field", name |-> name, value |-> value]

\* str.find / str.rfind as 1-based positions, 0 when absent (Python: -1)
Find(text, t) ==
    IF \E i \in 1..Len(text) : text[i].t = t
    THEN CHOOSE i \in 1..Len(text) :
            text[i].t = t /\ \A j \in 1..(i - 1) : text[j].t # t
    ELSE 0

RFind(text, t) ==
    IF \E i \in 1..Len(text) : text[i].t = t
    THEN CHOOSE i \in 1..Len(text) :
            text[i].t = t /\ \A j \in (i + 1)..Len(text) : text[j].t # t
    ELSE 0

\* json.loads accepts the slice: one object whose members are all well formed
JsonDecodes(json_str) ==
    /\ Len(json_str) >= 2
    /\ json_str[1].t = "{"
    /\ json_str[Len(json_str)].t = "}"
    /\ \A i \in 2..(Len(json_str) - 1) : json_str[i].t = "field"

\* dict.get(name, default) on the decoded object (a repeated name keeps its
\* last value)
Get(parsed, name, default) ==
    IF \E i \in 1..Len(parsed) : parsed[i].t = "field" /\ parsed[i].name = name
    THEN parsed[CHOOSE i \in 1..Len(parsed) :
                  /\ parsed[i].t = "field" /\ parsed[i].name = name
                  /\ \A j \in (i + 1)..Len(parsed) :
                        ~(parsed[j].t = "field" /\ parsed[j].name = name)].value
    ELSE default

\* float(value): "ok", or the exception raised
FloatRaises(value) ==
    IF value.type = "number" THEN "ok"
    ELSE IF value.type = "string"
         THEN IF value.str \in FloatLiterals THEN "ok" ELSE "ValueError"
    ELSE "TypeError"

FloatValue(value) == IF value.type = "number" THEN value.num ELSE FloatOf(value.str)

\* _parse_routing_response, line 113
ClampConfidence(x) == PyMin(PyMax(x, Num(0)), Num(10))

\* _parse_routing_response, lines 124-130
DefaultRouting ==
    [recommended_task |-> JStr("AWARENESS"), confidence |-> Num(5),
     reasoning |-> "Fallback routing due to parsing error",
     suggested_agents |-> JList(<<"career_agent">>)]

\* _parse_routing_response: raises is "" when it returns, else the exception
\* that leaves it (only ValueError, JSONDecodeError and KeyError are caught)
ParseRoutingResponse(response_text) ==
    LET start_idx == Find(response_text, "{")
        end_idx == RFind(response_text, "}")
        json_str == SubSeq(response_text, start_idx, end_idx)
        confidence == Get(json_str, "confidence", JNum(Num(5)))
    IN  IF start_idx # 0 /\ end_idx > start_idx /\ JsonDecodes(json_str)
        THEN IF FloatRaises(confidence) = "ok"
             THEN [raises |-> "",
                   analysis |->
                     [recommended_task |-> Get(json_str, "recommended_task", JStr("AWARENESS")),
                      confidence |-> ClampConfidence(FloatValue(confidence)),
                      reasoning |-> "Análise automática baseada no perfil",
                      suggested_agents |->
                          Get(json_str, "suggested_agents", JList(<<"career_agent">>))]]
             ELSE IF FloatRaises(confidence) = "ValueError"
             THEN [raises |-> "", analysis |-> DefaultRouting]
             ELSE [raises |-> "TypeError", analysis |-> DefaultRouting]
        ELSE [raises |-> "", analysis |-> DefaultRouting]

\* _fallback_routing: the keyword lists
RoutingKeywords ==
    [learning |->
         {<<"c","u","r","s","o">>,
          <<"t","r","e","i","n","a","m","e","n","t","o">>,
          <<"a","p","r","e","n","d","e","r">>,
          <<"e","s","t","u","d","a","r">>},
     career |->
         {<<"e","m","p","r","e","g","o">>,
          <<"t","r","a","b","a","l","h","o">>,
          <<"v","a","g","a">>,
          <<"c","a","r","r","e","i","r","a">>},
     skill |->
         {<<"h","a","b","i","l","i","d","a","d","e">>,
          <<"s","k","i","l","l">>,
          <<"c","o","m","p","e","t","ê","n","c","i","a">>,
          <<"e","x","p","e","r","i","ê","n","c","i","a">>},
     pathway |->
         {<<"p","l","a","n","o">>,
          <<"c","a","m","i","n","h","o">>,
          <<"p","r","ó","x","i","m","o","s"," ","p","a","s","s","o","s">>,
          <<"c","o","m","o"," ","c","o","m","e","ç","a","r">>}]

\* The keyword rules with the job rule ahead of the course rule.
FallbackRoutingCareerFirst(request) ==
    LET message_lower == Lower(request.message)
        rule == IF AnyIn(RoutingKeywords.career, message_lower)
                THEN [task |-> "CAREER_EXPLORATION", agents |-> <<"career_agent">>]
                ELSE IF AnyIn(RoutingKeywords.learning, message_lower)
                THEN [task |-> "LEARNING_GUIDANCE", agents |-> <<"learning_agent">>]
                ELSE IF AnyIn(RoutingKeywords.skill, message_lower)
                THEN [task |-> "SKILL_ASSESSMENT",
                      agents |-> <<"career_agent", "learning_agent">>]
                ELSE IF AnyIn(RoutingKeywords.pathway, message_lower)
                THEN [task |-> "PATHWAY_PLANNING", agents |-> <<"guidance_agent">>]
                ELSE [task |-> "AWARENESS", agents |-> <<"career_agent">>]
    IN  [recommended_task |-> JStr(rule.task), confidence |-> Num(7),
         reasoning |-> "Roteamento baseado em regras de palavras-chave",
         suggested_agents |-> JList(rule.agents)]

\* _fallback_routing
FallbackRouting(request) ==
    LET message_lower == Lower(request.message)
        rule == IF AnyIn(RoutingKeywords.learning, message_lower)
                THEN [task |-> "LEARNING_GUIDANCE", agents |-> <<"learning_agent">>]
                ELSE IF AnyIn(RoutingKeywords.career, message_lower)
                THEN [task |-> "CAREER_EXPLORATION", agents |-> <<"career_agent">>]
                ELSE IF AnyIn(RoutingKeywords.skill, message_lower)
                THEN [task |-> "SKILL_ASSESSMENT",
                      agents |-> <<"career_agent", "learning_agent">>]
                ELSE IF AnyIn(RoutingKeywords.pathway, message_lower)
                THEN [task |-> "PATHWAY_PLANNING", agents |-> <<"guidance_agent">>]
                ELSE [task |-> "AWARENESS", agents |-> <<"career_agent">>]
    IN  [recommended_task |-> JStr(rule.task), confidence |-> Num(7),
         reasoning |-> "Roteamento baseado em regras de palavras-chave",
         suggested_agents |-> JList(rule.agents)]

\* process without its except clause: nothing is returned when the try block
\* raises.
RouterProcessUncaught(request, outcome) ==
    IF outcome.raised \/ ParseRoutingResponse(outcome.payload).raises # ""
    THEN [recommended_task |-> JNull, confidence |-> Num(0), reasoning |-> "",
          suggested_agents |-> JNull]
    ELSE ParseRoutingResponse(outcome.payload).analysis

\* process, lines 33-61: the routing result for what generate_text gave
RouterProcess(request, outcome) ==
    IF outcome.raised \/ ParseRoutingResponse(outcome.payload).raises # ""
    THEN FallbackRouting(request)
    ELSE ParseRoutingResponse(outcome.payload).analysis

NoRouting ==
    [recommended_task |-> JNull, confidence |-> Num(0), reasoning |-> "",
     suggested_agents |-> JNull]

\* _build_routing_prompt: of the template, the words the mock generator looks
\* for, then the message.
BuildRoutingPrompt(request) ==
    <<"c","a","r","r","e","i","r","a","s"," ","v","e","r","d","e","s",":"," ">>
        \o request.message

\* The text of a canned mock answer: prose without a brace, whichever it is.
MockRoutingText(text) == <<Prose>>

\* Most members of a JSON object in a routing answer.
MaxFields == 2

\* The members the upstream model may put into its object.
RouterFieldPool ==
    {Field("recommended_task", JStr("LEARNING_GUIDANCE")),
     Field("recommended_task", JStr("learning_guidance")),
     Field("recommended_task", JStr("DANCE")),
     Field("confidence", JNum(Num(9))),
     Field("confidence", JNum(Num(15))),
     Field("confidence", JNum(NaN)),
     Field("confidence", JStr("alta")),
     Field("confidence", JNull),
     Field("suggested_agents", JList(<<"learning_agent">>)),
     Field("suggested_agents", JList(<< >>)),
     Field("suggested_agents", JList(<<"chef_agent">>))}

RouterObjects(n) == {<<Open>> \o fs \o <<Close>> : fs \in UNION {[1..k -> RouterFieldPool] : k \in 0..n}}

\* The routing answers of the upstream model: an object alone, a small object
\* inside prose, and texts that hold no object.
RouterAnswers ==
    RouterObjects(MaxFields)
        \cup {<<Prose>> \o o \o <<Prose>> : o \in RouterObjects(1)}
        \cup {<< >>, <<Prose>>, <<Prose, Open, Prose>>, <<Close, Prose, Open>>,
              <<Open, Close, Prose, Open, Close>>}

\* The words of the messages submitted to the router.
RouterLexicon == {Words.quero, Words.curso, Words.emprego, Words.habilidade, Words.plano}

RouterRequests ==
    {RequestOf(ws, "pt-BR") :
        ws \in WordSeqs(RouterLexicon, MaxWords)
                \cup {ScenarioAWords,
                      <<Words.quero, Words.emprego, Words.em, Words.energia, Words.solar>>}}

(***************************************************************************)
(* process_request (api/v1/assistant.py)                                   *)
(***************************************************************************)

\* AGENT_REGISTRY (agents/__init__.py)
AGENT_REGISTRY ==
    {"router_agent", "career_agent", "learning_agent", "guidance_agent", "safety_agent"}

\* The values of the enum AssistantTaskType (models/__init__.py)
AssistantTaskTypes ==
    {"awareness", "career_exploration", "skill_assessment", "learning_guidance",
     "pathway_planning"}

\* An AssistantRequest with its task_type.
AssistantRequestOf(words, language, task_type) ==
    [words |-> words, message |-> Join(words), language |-> language,
     task_type |-> task_type]

NoAssistantRequest ==
    [words |-> << >>, message |-> << >>, language |-> "en", task_type |-> "awareness"]

\* line 50: suggested_agents[0] if suggested_agents else "career_agent".
\* An empty list, an empty str, null and 0 are falsy; a non-empty str gives
\* its first character (a name of one character); a number has no [0].
PrimaryAgentName(suggested_agents) ==
    IF suggested_agents.type = "array"
    THEN [raises |-> FALSE,
          name |-> IF suggested_agents.items = << >> THEN "career_agent"
                   ELSE suggested_agents.items[1]]
    ELSE IF suggested_agents.type = "null"
    THEN [raises |-> FALSE, name |-> "career_agent"]
    ELSE IF suggested_agents.type = "string"
    THEN [raises |-> FALSE,
          name |-> IF suggested_agents.str = "" THEN "career_agent" ELSE "first character"]
    ELSE [raises |-> suggested_agents.num # Num(0), name |-> "career_agent"]

\* get_agent raises ValueError for a name that is not in the registry
GetAgentRaises(agent_name) == agent_name \notin AGENT_REGISTRY

\* line 54: AssistantTaskType(recommended_task) raises unless the value is one
\* of the enum's values
TaskTypeRaises(recommended_task) ==
    ~(recommended_task.type = "string" /\ recommended_task.str \in AssistantTaskTypes)

\* lines 46-54 raise
DispatchRaises(routing_result) ==
    \/ PrimaryAgentName(routing_result.suggested_agents).raises
    \/ GetAgentRaises(PrimaryAgentName(routing_result.suggested_agents).name)
    \/ TaskTypeRaises(routing_result.recommended_task)

\* The key under which each agent's process returns its text.
ResultKey(agent_name) ==
    CASE agent_name = "career_agent" -> "career_guidance"
      [] agent_name = "learning_agent" -> "learning_guidance"
      [] agent_name = "guidance_agent" -> "guidance_text"
      [] agent_name = "safety_agent" -> "safety_result"
      [] agent_name = "router_agent" -> "recommended_task"

\* The handlers' prompts: of each template, the words the mock generator looks
\* for, then the message.
BuildHandlerPrompt(request) ==
    <<"c","a","r","r","e","i","r","a","s"," ","v","e","r","d","e","s",":"," ">>
        \o request.message

\* What the upstream model may answer to a handler's prompt.
HandlerTexts == {"h1"}

NoAgentResult == [agent |-> "", key |-> "", text |-> ""]

\* line 64: agent_result.get("career_guidance", "Guidance processed successfully")
ResponseText(agent_result) ==
    IF agent_result.key = "career_guidance" THEN agent_result.text
    ELSE "Guidance processed successfully"

\* AssistantResponse(confidence_score: float, ge=0, le=1) rejects the value
ConfidenceInvalid(confidence) ==
    ~(PyLt(Num(0), confidence) \/ confidence = Num(0))
        \/ ~(PyLt(confidence, Num(10)) \/ confidence = Num(10))

NoReply ==
    [status |-> 0, response |-> "", agent_used |-> "", confidence_score |-> Num(0),
     detail |-> ""]

\* lines 103-106
FailureReply ==
    [status |-> 500, response |-> "", agent_used |-> "", confidence_score |-> Num(0),
     detail |-> "Failed to process assistant request"]

\* The requests sent to process_request: scenario A, a message with a risk
\* word, and a message no rule matches.
AssistantRequests ==
    {AssistantRequestOf(ws, l, "awareness") :
        ws \in {ScenarioAWords, <<Words.quero, Words.Matar>>, <<Words.quero>>}, l \in LanguageCodes}
(***************************************************************************)
(* State                                                                   *)
(***************************************************************************)
VARIABLES
    MOCK_MODE,   \* settings.MOCK_MODE, as configured
    mock_mode,   \* MistralProvider.mock_mode
    cache,       \* MistralProvider.cache
    now,         \* the cache's timer
    inflight,    \* per caller: the generate_text call suspended in asyncio.sleep
    workload,    \* the run's callers and the call signatures they issue
    last,        \* history: the generate_text call that returned last
    insOrder,    \* history: the cached keys, earliest stored first
    useOrder,    \* history: the cached keys, least recently read or stored first
    evict,       \* history: what the last store into a full, unexpired cache evicted
    safety_pc,       \* SafetyAgent.process: "idle", "stageB" (awaiting generate_text), "done"
    safety_request,  \* the request being checked
    safety_quick,    \* quick_check
    safety_calls,    \* history: generate_text calls made for the request
    safety_outcome,  \* history: what the generate_text call gave
    safety_result,   \* safety_result of the returned dict
    validation,      \* validate_response_safety: the text validated and the dict returned
    quick_log,       \* history: the calls of _quick_safety_check made on their own
    router_pc,       \* RouterAgent.process: "idle", "routing" (awaiting generate_text), "done"
    router_request,  \* the request being routed
    router_outcome,  \* history: what the generate_text call gave
    router_result,   \* the routing result returned
    assist_pc,            \* process_request: "idle", "routing", "handling", "done", "failed"
    assist_request,       \* request (its task_type is assigned at line 54)
    assist_routing,       \* routing_result
    assist_agent,         \* primary_agent_name
    assist_agent_result,  \* agent_result
    assist_reply,         \* what the caller receives
    assist_events,        \* the events passed to event_logger.log_event
    interaction_count,    \* persona.interaction_count
    assist_invoked,       \* history: the agents whose process was called
    assist_raised,        \* history: who raised inside the try block
    assist_entry          \* history: the request as process_request received it

providerVars ==
    <<MOCK_MODE, mock_mode, cache, now, inflight, workload, last, insOrder, useOrder, evict>>

safetyVars ==
    <<safety_pc, safety_request, safety_quick, safety_calls, safety_outcome, safety_result,
      validation, quick_log>>

routerVars == <<router_pc, router_request, router_outcome, router_result>>

assistVars ==
    <<assist_pc, assist_request, assist_routing, assist_agent, assist_agent_result,
      assist_reply, assist_events, interaction_count, assist_invoked, assist_raised,
      assist_entry>>

\* Everything outside MistralProvider.
pipelineVars == <<safetyVars, routerVars, assistVars>>

vars ==
    <<MOCK_MODE, mock_mode, cache, now, inflight, workload, last, insOrder, useOrder, evict,
      safety_pc, safety_request, safety_quick, safety_calls, safety_outcome, safety_result,
      validation, quick_log,
      router_pc, router_request, router_outcome, router_result,
      assist_pc, assist_request, assist_routing, assist_agent, assist_agent_result,
      assist_reply, assist_events, interaction_count, assist_invoked, assist_raised,
      assist_entry>>

(***************************************************************************)
(* MistralProvider.generate_text                                           *)
(***************************************************************************)

\* The coroutines that may call generate_text concurrently.
Callers == {"c1", "c2"}

Idle == [busy |-> FALSE, sig |-> BaseSignature, upstream |-> "none",
         had |-> FALSE, hadValue |-> NoResponse, stale |-> FALSE]

NoCall ==
    [valid |-> FALSE, sig |-> BaseSignature, res |-> NoResponse, raised |-> FALSE,
     hit |-> FALSE, from |-> BaseSignature, upstream |-> "none", mockgen |-> FALSE,
     had |-> FALSE, hadValue |-> NoResponse, stale |-> FALSE]

NoEvict == [valid |-> FALSE, victims |-> {}, lru |-> KeyOf(BaseSignature),
            oldest |-> KeyOf(BaseSignature)]

\* _initialize_client: mock mode when configured, and also when creating the
\* boto3 client raises ClientError / NoCredentialsError.
InitializeClient(configured, client_ok) == configured \/ ~client_ok

\* History: the cache holds an unexpired entry that a call with this very
\* signature stored.
StoredBySame(sig) ==
    \E i \in 1..Len(cache) : cache[i].sig = sig /\ now < cache[i].expires

ValueStoredBySame(sig) ==
    IF StoredBySame(sig)
    THEN cache[CHOOSE i \in 1..Len(cache) : cache[i].sig = sig /\ now < cache[i].expires].value
    ELSE NoResponse

\* History: the cache still holds an entry under the call's key whose
\* time-to-live has elapsed.
StaleEntry(sig) ==
    \E i \in 1..Len(cache) : cache[i].key = KeyOf(sig) /\ ~(now < cache[i].expires)

InitProviderState ==
    /\ MOCK_MODE \in BOOLEAN
    /\ \E client_ok \in BOOLEAN : mock_mode = InitializeClient(MOCK_MODE, client_ok)
    /\ cache = << >>
    /\ now = 0
    /\ inflight = [c \in Callers |-> Idle]
    /\ last = NoCall
    /\ insOrder = << >>
    /\ useOrder = << >>
    /\ evict = NoEvict

\* The timer advances.
Tick ==
    /\ now < workload.horizon
    /\ now' = now + 1
    /\ UNCHANGED <<MOCK_MODE, mock_mode, cache, inflight, workload, last, insOrder,
                   useOrder, evict>>
    /\ UNCHANGED pipelineVars

\* self.cache[cache_key] = response (line 96), with the history kept beside it
Store(key, value, sig) ==
    LET gone == Keys(cache) \ Keys(CacheSet(cache, key, value, sig, now))
        keep(order) == SelectSeq(order, LAMBDA k : k \notin gone /\ k # key)
    IN  /\ cache' = CacheSet(cache, key, value, sig, now)
        /\ insOrder' = keep(insOrder) \o <<key>>
        /\ useOrder' = keep(useOrder) \o <<key>>
        /\ evict' = IF /\ Len(cache) = CacheMaxSize
                       /\ \A i \in 1..Len(cache) : now < cache[i].expires
                       /\ key \notin Keys(cache)
                    THEN [valid |-> TRUE, victims |-> gone, lru |-> useOrder[1],
                          oldest |-> insOrder[1]]
                    ELSE NoEvict

Returned(sig, res, hit, from, upstream, mockgen, had, hadValue, stale) ==
    last' = [valid |-> TRUE, sig |-> sig, res |-> res, raised |-> FALSE, hit |-> hit,
             from |-> from, upstream |-> upstream, mockgen |-> mockgen,
             had |-> had, hadValue |-> hadValue, stale |-> stale]

\* generate_text, lines 81-88: the key is in the cache; the cached response
\* is returned.
CallHit(c, sig) ==
    /\ ~inflight[c].busy
    /\ CacheContains(cache, KeyOf(sig), now)
    /\ cache' = CacheTouch(cache, KeyOf(sig))
    /\ useOrder' = SelectSeq(useOrder, LAMBDA k : k # KeyOf(sig)) \o <<KeyOf(sig)>>
    /\ Returned(sig, EntryOf(cache, KeyOf(sig)).value, TRUE,
                EntryOf(cache, KeyOf(sig)).sig, "none", FALSE,
                StoredBySame(sig), ValueStoredBySame(sig), StaleEntry(sig))
    /\ UNCHANGED <<MOCK_MODE, mock_mode, now, inflight, workload, insOrder, evict>>
    /\ UNCHANGED pipelineVars

\* generate_text, lines 90-91, mock mode: _generate_mock_response awaits
\* asyncio.sleep (line 165).
CallMockStart(c, sig) ==
    /\ ~inflight[c].busy
    /\ ~CacheContains(cache, KeyOf(sig), now)
    /\ mock_mode
    /\ inflight' = [inflight EXCEPT ![c] =
                      [busy |-> TRUE, sig |-> sig, upstream |-> "none",
                       had |-> StoredBySame(sig), hadValue |-> ValueStoredBySame(sig),
                       stale |-> StaleEntry(sig)]]
    /\ UNCHANGED <<MOCK_MODE, mock_mode, cache, now, workload, last, insOrder,
                   useOrder, evict>>
    /\ UNCHANGED pipelineVars

\* generate_text, lines 92-97: invoke_model answers; the response is cached
\* and returned (no await on this path).
CallRealOk(c, sig) ==
    /\ ~inflight[c].busy
    /\ ~CacheContains(cache, KeyOf(sig), now)
    /\ ~mock_mode
    /\ \E text \in UpstreamTexts :
         /\ Store(KeyOf(sig), RealResponse(text), sig)
         /\ Returned(sig, RealResponse(text), FALSE, sig, "ok", FALSE,
                     StoredBySame(sig), ValueStoredBySame(sig), StaleEntry(sig))
    /\ UNCHANGED <<MOCK_MODE, mock_mode, now, inflight, workload>>
    /\ UNCHANGED pipelineVars

\* _generate_real_response, lines 149-153: the upstream call raises; the
\* handler awaits _generate_mock_response.
CallRealFail(c, sig) ==
    /\ ~inflight[c].busy
    /\ ~CacheContains(cache, KeyOf(sig), now)
    /\ ~mock_mode
    /\ inflight' = [inflight EXCEPT ![c] =
                      [busy |-> TRUE, sig |-> sig, upstream |-> "fail",
                       had |-> StoredBySame(sig), hadValue |-> ValueStoredBySame(sig),
                       stale |-> StaleEntry(sig)]]
    /\ UNCHANGED <<MOCK_MODE, mock_mode, cache, now, workload, last, insOrder,
                   useOrder, evict>>
    /\ UNCHANGED pipelineVars

\* _generate_mock_response resumes after the sleep (lines 167-202); back in
\* generate_text the mock response is cached and returned (lines 96-97).
MockResume(c) ==
    /\ inflight[c].busy
    /\ LET sig == inflight[c].sig
           res == MockResponse(sig.prompt, OrDefault(sig.temperature, DEFAULT_TEMPERATURE))
       IN  /\ Store(KeyOf(sig), res, sig)
           /\ Returned(sig, res, FALSE, sig, inflight[c].upstream, TRUE,
                       inflight[c].had, inflight[c].hadValue, inflight[c].stale)
    /\ inflight' = [inflight EXCEPT ![c] = Idle]
    /\ UNCHANGED <<MOCK_MODE, mock_mode, now, workload>>
    /\ UNCHANGED pipelineVars

NextProvider ==
    \/ Tick
    \/ \E c \in workload.callers, sig \in workload.sigs : CallHit(c, sig)
    \/ \E c \in workload.callers, sig \in workload.sigs : CallMockStart(c, sig)
    \/ \E c \in workload.callers, sig \in workload.sigs : CallRealOk(c, sig)
    \/ \E c \in workload.callers, sig \in workload.sigs : CallRealFail(c, sig)
    \/ \E c \in workload.callers : MockResume(c)

\* No safety check in progress.
SafetyIdle ==
    /\ safety_pc = "idle"
    /\ safety_request = NoRequest
    /\ safety_quick = NoQuickCheck
    /\ safety_calls = 0
    /\ safety_outcome = NoOutcome
    /\ safety_result = NoResult
    /\ validation = NoValidation
    /\ quick_log = << >>

\* No routing in progress.
RouterIdle ==
    /\ router_pc = "idle"
    /\ router_request = NoRequest
    /\ router_outcome = NoOutcome
    /\ router_result = NoRouting

\* No request in process_request; a persona without interactions.
AssistantIdle ==
    /\ assist_pc = "idle"
    /\ assist_request = NoAssistantRequest
    /\ assist_entry = NoAssistantRequest
    /\ assist_routing = NoRouting
    /\ assist_agent = ""
    /\ assist_agent_result = NoAgentResult
    /\ assist_reply = NoReply
    /\ assist_events = << >>
    /\ interaction_count = 0
    /\ assist_invoked = << >>
    /\ assist_raised = ""

\* The calls of the cache run: the base call, one that differs from it only in
\* top_p, and two with other prompts.
ProviderSignatures ==
    {BaseSignature, [BaseSignature EXCEPT !.top_p = 5],
     [BaseSignature EXCEPT !.prompt = <<"J","o","b",":","x">>], [BaseSignature EXCEPT !.prompt = <<"h","i">>]}

\* One caller issuing calls one after the other, while the timer advances.
InitProvider ==
    /\ InitProviderState
    /\ SafetyIdle
    /\ RouterIdle
    /\ AssistantIdle
    /\ workload = [callers |-> {"c1"}, sigs |-> ProviderSignatures, horizon |-> MaxTime]

SpecProvider == InitProvider /\ [][NextProvider]_vars

\* One caller issuing calls with two signatures, each the base call or a call
\* that differs from it in one argument.
InitKey ==
    /\ InitProviderState
    /\ SafetyIdle
    /\ RouterIdle
    /\ AssistantIdle
    /\ \E s1 \in Signatures, s2 \in Signatures :
         workload = [callers |-> {"c1"}, sigs |-> {s1, s2}, horizon |-> 1]

SpecKey == InitKey /\ [][NextProvider]_vars

\* Two callers issuing calls concurrently, while the timer advances once.
InitRace ==
    /\ InitProviderState
    /\ SafetyIdle
    /\ RouterIdle
    /\ AssistantIdle
    /\ workload = [callers |-> Callers,
                   sigs |-> ProviderSignatures \ {[BaseSignature EXCEPT !.top_p = 5]},
                   horizon |-> 1]

SpecRace == InitRace /\ [][NextProvider]_vars


(***************************************************************************)
(* SafetyAgent.process                                                     *)
(***************************************************************************)

\* _quick_safety_check reads nothing but its argument: its result for each
\* request of the model, computed once.
QuickCheckOf == [request \in SafetyRequests |-> QuickSafetyCheck(request.message)]

\* process, lines 62-75 and 77-88: the quick check fails; the verdict is
\* returned at once.
SafetyBlock(request) ==
    /\ safety_pc = "idle"
    /\ ~QuickCheckOf[request].is_safe
    /\ safety_pc' = "done"
    /\ safety_request' = request
    /\ safety_quick' = QuickCheckOf[request]
    /\ safety_calls' = 0
    /\ safety_outcome' = NoOutcome
    /\ safety_result' = BlockedResult(QuickCheckOf[request], request.language)
    /\ UNCHANGED <<providerVars, routerVars, assistVars, validation, quick_log>>

\* process, lines 62-66, and _comprehensive_safety_check, lines 122-131: the
\* quick check passes; generate_text is called and awaited.
SafetyCallStageB(request) ==
    /\ safety_pc = "idle"
    /\ QuickCheckOf[request].is_safe
    /\ safety_pc' = "stageB"
    /\ safety_request' = request
    /\ safety_quick' = QuickCheckOf[request]
    /\ safety_calls' = 1
    /\ safety_outcome' = NoOutcome
    /\ safety_result' = NoResult
    /\ UNCHANGED <<providerVars, routerVars, assistVars, validation, quick_log>>

\* _comprehensive_safety_check, lines 133-148: generate_text has returned
\* (temperature=0.1); the verdict is parsed from its text and returned.
SafetyStageBReturn ==
    /\ safety_pc = "stageB"
    /\ \E outcome \in GenerateTextOutcomes(mock_mode, SafetyAnswers,
                         MockSafetyLines(MockText(BuildSafetyPrompt(safety_request), 1))) :
         /\ safety_outcome' = outcome
         /\ safety_result' = ComprehensiveSafetyCheck(outcome)
    /\ safety_pc' = "done"
    /\ UNCHANGED <<safety_request, safety_quick, safety_calls>>
    /\ UNCHANGED <<providerVars, routerVars, assistVars, validation, quick_log>>

NextSafety ==
    \/ \E request \in SafetyRequests : SafetyBlock(request)
    \/ \E request \in SafetyRequests : SafetyCallStageB(request)
    \/ SafetyStageBReturn

\* A provider as constructed, no check in progress.
InitSafety ==
    /\ InitProviderState
    /\ workload = [callers |-> {}, sigs |-> {}, horizon |-> 0]
    /\ SafetyIdle
    /\ RouterIdle
    /\ AssistantIdle

SpecSafety == InitSafety /\ [][NextSafety]_vars

(***************************************************************************)
(* SafetyAgent.validate_response_safety                                    *)
(***************************************************************************)

\* validate_response_safety is called on an outbound text and returns.
Validate(response_text) ==
    /\ ~validation.valid
    /\ validation' = ValidateResponseSafety(response_text)
    /\ UNCHANGED <<safety_pc, safety_request, safety_quick, safety_calls, safety_outcome,
                   safety_result, quick_log>>
    /\ UNCHANGED <<providerVars, routerVars, assistVars>>

NextValidate == \E response_text \in ResponseTexts : Validate(response_text)

SpecValidate == InitSafety /\ [][NextValidate]_vars

(***************************************************************************)
(* SafetyAgent._quick_safety_check, called repeatedly                      *)
(***************************************************************************)

\* Most calls of _quick_safety_check made on their own in one run.
MaxQuickCalls == 2

\* The requests of the run: a clean message, one with a risk word and a
\* positive indicator, one with two risk categories.
QuickRequests ==
    {RequestOf(ws, "pt-BR") :
        ws \in {<<Words.quero, Words.curso>>, <<Words.Matar, Words.curso>>,
                <<Words.cpf, Words.matar>>}}

\* The quick check whose positive count grows with the calls made before.
QuickCallCounting(request) ==
    /\ Len(quick_log) < MaxQuickCalls
    /\ quick_log' = Append(quick_log,
                       [message |-> request.message,
                        result |-> [QuickCheckOf[request] EXCEPT
                                       !.positive_score = @ + Len(quick_log)]])
    /\ UNCHANGED <<safety_pc, safety_request, safety_quick, safety_calls, safety_outcome,
                   safety_result, validation>>
    /\ UNCHANGED <<providerVars, routerVars, assistVars>>

\* _quick_safety_check is called with a message and returns; it reads the
\* message, self.unsafe_patterns and self.positive_indicators and assigns
\* nothing but its locals.
QuickCall(request) ==
    /\ Len(quick_log) < MaxQuickCalls
    /\ quick_log' = Append(quick_log,
                       [message |-> request.message, result |-> QuickCheckOf[request]])
    /\ UNCHANGED <<safety_pc, safety_request, safety_quick, safety_calls, safety_outcome,
                   safety_result, validation>>
    /\ UNCHANGED <<providerVars, routerVars, assistVars>>

\* Calls of the quick check before, during and after one call of process.
NextQuick ==
    \/ \E request \in QuickRequests : QuickCall(request)
    \/ \E request \in QuickRequests : SafetyBlock(request)
    \/ \E request \in QuickRequests : SafetyCallStageB(request)
    \/ SafetyStageBReturn

SpecQuick == InitSafety /\ [][NextQuick]_vars

(***************************************************************************)
(* RouterAgent.process                                                     *)
(***************************************************************************)

\* process, lines 30-40: the prompts are built, generate_text is called and
\* awaited.
RouterCall(request) ==
    /\ router_pc = "idle"
    /\ router_pc' = "routing"
    /\ router_request' = request
    /\ UNCHANGED <<router_outcome, router_result>>
    /\ UNCHANGED <<providerVars, safetyVars, assistVars>>

\* process, lines 43-61: generate_text has returned (temperature=0.3); the
\* routing result is parsed from its text, or taken from the keyword rules.
RouterReturn ==
    /\ router_pc = "routing"
    /\ \E outcome \in GenerateTextOutcomes(mock_mode, RouterAnswers,
                         MockRoutingText(MockText(BuildRoutingPrompt(router_request), 3))) :
         /\ router_outcome' = outcome
         /\ router_result' = RouterProcess(router_request, outcome)
    /\ router_pc' = "done"
    /\ UNCHANGED router_request
    /\ UNCHANGED <<providerVars, safetyVars, assistVars>>

NextRouter ==
    \/ \E request \in RouterRequests : RouterCall(request)
    \/ RouterReturn

\* A provider as constructed, no routing in progress.
InitRouter ==
    /\ InitProviderState
    /\ workload = [callers |-> {}, sigs |-> {}, horizon |-> 0]
    /\ SafetyIdle
    /\ RouterIdle
    /\ AssistantIdle

SpecRouter == InitRouter /\ [][NextRouter]_vars

\* mistral_provider.py, lines 121-126: invoke_model is called and the upstream
\* service never answers.  The call carries no timeout and nothing in
\* generate_text or in process bounds the wait, so no step follows.
RouterHangs ==
    /\ router_pc = "routing"
    /\ ~mock_mode
    /\ router_pc' = "hung"
    /\ UNCHANGED <<router_request, router_outcome, router_result>>
    /\ UNCHANGED <<providerVars, safetyVars, assistVars>>

NextRouterLive ==
    \/ \E request \in RouterRequests : RouterCall(request)
    \/ RouterReturn
    \/ RouterHangs

\* The event loop resumes process once generate_text has something to return.
SpecRouterLive == InitRouter /\ [][NextRouterLive]_vars /\ WF_vars(RouterReturn)

(***************************************************************************)
(* RouterAgent.process and SafetyAgent.process, one call of either         *)
(***************************************************************************)

NextAgents ==
    \/ \E request \in RouterRequests : safety_pc = "idle" /\ RouterCall(request)
    \/ RouterReturn
    \/ \E request \in SafetyRequests : router_pc = "idle" /\ SafetyBlock(request)
    \/ \E request \in SafetyRequests : router_pc = "idle" /\ SafetyCallStageB(request)
    \/ SafetyStageBReturn

SpecAgents == InitRouter /\ [][NextAgents]_vars

(***************************************************************************)
(* process_request                                                         *)
(***************************************************************************)

\* The except clause with the success path's side effects in it.
FailsWithInteraction(who) ==
    /\ assist_pc' = "failed"
    /\ assist_raised' = who
    /\ assist_events' = Append(assist_events, "assistant_interaction")
    /\ assist_reply' = FailureReply
    /\ interaction_count' = interaction_count + 1
    /\ UNCHANGED assist_entry

\* lines 93-106: the except clause logs an error event and answers 500
Fails(who) ==
    /\ assist_pc' = "failed"
    /\ assist_raised' = who
    /\ assist_events' = Append(assist_events, "assistant_error")
    /\ assist_reply' = FailureReply
    /\ UNCHANGED <<interaction_count, assist_entry>>

\* lines 33-43: the persona is obtained; RouterAgent.process is called and
\* awaited.
Receive(request) ==
    /\ assist_pc = "idle"
    /\ assist_pc' = "routing"
    /\ assist_request' = request
    /\ assist_entry' = request
    /\ assist_invoked' = Append(assist_invoked, "router_agent")
    /\ UNCHANGED <<assist_routing, assist_agent, assist_agent_result, assist_reply,
                   assist_events, interaction_count, assist_raised>>
    /\ UNCHANGED <<providerVars, safetyVars, routerVars>>

\* lines 43-57: the router has returned; the primary agent is looked up, the
\* request's task type is set from the routing and the agent's process is
\* called and awaited.
Dispatch ==
    /\ assist_pc = "routing"
    /\ \E outcome \in GenerateTextOutcomes(mock_mode, RouterAnswers,
                         MockRoutingText(MockText(BuildRoutingPrompt(assist_request), 3))) :
         LET routing_result == RouterProcess(assist_request, outcome)
             primary_agent_name == PrimaryAgentName(routing_result.suggested_agents).name
         IN  /\ ~DispatchRaises(routing_result)
             /\ assist_routing' = routing_result
             /\ assist_agent' = primary_agent_name
             /\ assist_request' =
                    [assist_request EXCEPT !.task_type = routing_result.recommended_task.str]
             /\ assist_invoked' = Append(assist_invoked, primary_agent_name)
    /\ assist_pc' = "handling"
    /\ UNCHANGED <<assist_agent_result, assist_reply, assist_events, interaction_count,
                   assist_raised, assist_entry>>
    /\ UNCHANGED <<providerVars, safetyVars, routerVars>>

\* lines 43-54 and 93-106: the router has returned; the lookup of the primary
\* agent or the conversion of the task name raises.
DispatchFails ==
    /\ assist_pc = "routing"
    /\ \E outcome \in GenerateTextOutcomes(mock_mode, RouterAnswers,
                         MockRoutingText(MockText(BuildRoutingPrompt(assist_request), 3))) :
         LET routing_result == RouterProcess(assist_request, outcome)
         IN  /\ DispatchRaises(routing_result)
             /\ assist_routing' = routing_result
    /\ Fails("dispatch")
    /\ UNCHANGED <<assist_request, assist_agent, assist_agent_result, assist_invoked>>
    /\ UNCHANGED <<providerVars, safetyVars, routerVars>>

\* What the primary agent's process returns: the text generate_text gave it,
\* under the agent's key.
AgentResults ==
    {[agent |-> assist_agent, key |-> ResultKey(assist_agent), text |-> o.payload] :
        o \in GenerateTextOutcomes(mock_mode, HandlerTexts,
                                   MockText(BuildHandlerPrompt(assist_request), 6).body)}

\* lines 57-91: the agent has returned; the response is built, the interaction
\* event logged, the persona's counter incremented and stored.
Respond ==
    /\ assist_pc = "handling"
    /\ ~ConfidenceInvalid(assist_routing.confidence)
    /\ \E agent_result \in AgentResults :
         /\ assist_agent_result' = agent_result
         /\ assist_reply' = [status |-> 200, response |-> ResponseText(agent_result),
                             agent_used |-> assist_agent,
                             confidence_score |-> assist_routing.confidence,
                             detail |-> ""]
    /\ assist_events' = Append(assist_events, "assistant_interaction")
    /\ interaction_count' = interaction_count + 1
    /\ assist_pc' = "done"
    /\ UNCHANGED <<assist_request, assist_routing, assist_agent, assist_invoked,
                   assist_raised, assist_entry>>
    /\ UNCHANGED <<providerVars, safetyVars, routerVars>>

\* lines 57-88 and 93-106: the agent has returned, the response is built, the
\* interaction event logged and the persona's counter incremented; then
\* update_persona_metadata raises (_save_personas re-raises a failed write),
\* and the except clause logs an error event and answers 500.
StoreFails ==
    /\ assist_pc = "handling"
    /\ ~ConfidenceInvalid(assist_routing.confidence)
    /\ \E agent_result \in AgentResults : assist_agent_result' = agent_result
    /\ assist_events' = assist_events \o <<"assistant_interaction", "assistant_error">>
    /\ interaction_count' = interaction_count + 1
    /\ assist_reply' = FailureReply
    /\ assist_raised' = "store"
    /\ assist_pc' = "failed"
    /\ UNCHANGED <<assist_request, assist_routing, assist_agent, assist_invoked, assist_entry>>
    /\ UNCHANGED <<providerVars, safetyVars, routerVars>>

\* lines 57-72 and 93-106: the agent has returned; AssistantResponse rejects
\* the confidence.
RespondFails ==
    /\ assist_pc = "handling"
    /\ ConfidenceInvalid(assist_routing.confidence)
    /\ \E agent_result \in AgentResults : assist_agent_result' = agent_result
    /\ Fails("response")
    /\ UNCHANGED <<assist_request, assist_routing, assist_agent, assist_invoked>>
    /\ UNCHANGED <<providerVars, safetyVars, routerVars>>

\* lines 57 and 93-106: the agent's process raises.
HandlerRaises ==
    /\ assist_pc = "handling"
    /\ Fails("handler")
    /\ UNCHANGED <<assist_request, assist_routing, assist_agent, assist_agent_result,
                   assist_invoked>>
    /\ UNCHANGED <<providerVars, safetyVars, routerVars>>

NextAssistant ==
    \/ \E request \in AssistantRequests : Receive(request)
    \/ Dispatch
    \/ DispatchFails
    \/ Respond
    \/ StoreFails
    \/ RespondFails
    \/ HandlerRaises

\* A provider as constructed, no request in progress.
InitAssistant ==
    /\ InitProviderState
    /\ workload = [callers |-> {}, sigs |-> {}, horizon |-> 0]
    /\ SafetyIdle
    /\ RouterIdle
    /\ AssistantIdle

SpecAssistant == InitAssistant /\ [][NextAssistant]_vars
(***************************************************************************)
(* Claims about MistralProvider                                            *)
(***************************************************************************)

\* C6: when generate_text is called with a signature for which an earlier call
\* with the identical signature stored an entry that has neither expired nor
\* been evicted, the call returns that entry's text, model id and mock flag,
\* and invokes neither the upstream nor the mock generation.
C6_SecondCallServedFromCache ==
    (last.valid /\ last.had) =>
        /\ last.res = last.hadValue
        /\ last.hit
        /\ last.upstream = "none"
        /\ ~last.mockgen

\* A second identical call was answered from the cache with an upstream text.
C6_Witness ==
    /\ last.valid /\ last.had /\ last.hit
    /\ last.sig = BaseSignature
    /\ last.res = RealResponse("t2")

C8_HitOnlyForSameSignature ==
    (last.valid /\ last.hit) => last.from = last.sig

\* C9: with mock mode not configured, a call whose upstream call failed ends in
\* an error, and a response flagged mock_mode is returned only when mock mode was
\* configured.
C9_UpstreamFailureRaises ==
    last.valid =>
        /\ (~MOCK_MODE /\ last.upstream = "fail") => last.raised
        /\ last.res.mock_mode => MOCK_MODE


\* C25: a call answered from the cache is answered from an entry whose
\* time-to-live had not elapsed, with that entry's value; a call made when the
\* entry under its key had outlived its time-to-live is not answered from the
\* cache but invokes the generation, and its response is stored as a fresh
\* entry.
C25_ExpiredEntryNotServed ==
    [][(last' # last /\ last'.valid) =>
          /\ last'.hit =>
                \E i \in 1..Len(cache) :
                    /\ cache[i].key = KeyOf(last'.sig)
                    /\ now < cache[i].expires
                    /\ cache[i].value = last'.res
          /\ last'.stale =>
                /\ ~last'.hit
                /\ last'.upstream = "ok" \/ last'.mockgen
                /\ \E i \in 1..Len(cache') :
                      /\ cache'[i].key = KeyOf(last'.sig)
                      /\ cache'[i].expires = now + CacheTTL
                      /\ cache'[i].value = last'.res]_vars

\* A call found the entry under its key expired, asked the upstream again and
\* stored the new answer.
C25_Witness ==
    /\ last.valid /\ last.stale /\ ~last.hit
    /\ last.upstream = "ok"
    /\ \E i \in 1..Len(cache) :
          cache[i].key = KeyOf(last.sig) /\ cache[i].value = last.res /\ now < cache[i].expires

\* C26: calls are not coalesced, and after every call that was not answered
\* from the cache the cache holds exactly one entry under the call's key, with
\* the response of that call (the last one written).
C26_LastWriteWins ==
    [][(last' # last /\ last'.valid /\ ~last'.hit) =>
          /\ Cardinality({i \in 1..Len(cache') : cache'[i].key = KeyOf(last'.sig)}) = 1
          /\ EntryOf(cache', KeyOf(last'.sig)).value = last'.res]_vars

\* Two calls with the same signature are both past the cache check and in
\* their generation.
C26_Witness ==
    /\ inflight["c1"].busy /\ inflight["c2"].busy
    /\ inflight["c1"].sig = inflight["c2"].sig
    /\ ~inflight["c1"].had /\ ~inflight["c2"].had

\* C27: the cache never holds more than CACHE_MAX_SIZE entries, and a call
\* answered from the cache found an entry there whose time-to-live had not
\* elapsed.
C27_CacheBoundedAndFresh ==
    [][/\ Len(cache') <= CacheMaxSize
       /\ (last' # last /\ last'.hit) =>
             \E i \in 1..Len(cache) :
                 cache[i].key = KeyOf(last'.sig) /\ now < cache[i].expires]_vars

\* A concurrent call stored a third key into the full cache, and one entry was
\* evicted for it.
C27_Witness ==
    /\ evict.valid
    /\ Len(cache) = CacheMaxSize
    /\ \E c \in Callers : inflight[c].busy

\* C28: with the provider not in mock mode, a call whose upstream call failed
\* returns a generated mock response flagged mock_mode and has it in the cache
\* under its key; a call with a signature for which such an entry is stored and
\* alive is answered with it, without upstream call and without generation.
C28_FailureMockIsCached ==
    (last.valid /\ ~mock_mode) =>
        /\ last.upstream = "fail" =>
              /\ last.res.mock_mode
              /\ last.mockgen
              /\ \E i \in 1..Len(cache) :
                    cache[i].key = KeyOf(last.sig) /\ cache[i].value = last.res
        /\ (last.had /\ last.hadValue.mock_mode) =>
              /\ last.hit
              /\ last.res = last.hadValue
              /\ last.upstream = "none"
              /\ ~last.mockgen

\* With the provider not in mock mode, a call was answered from the cache with
\* the mock response an earlier failed call had stored.
C28_Witness ==
    /\ ~mock_mode
    /\ last.valid /\ last.hit /\ last.had
    /\ last.res.mock_mode
    /\ last.upstream = "none"

(***************************************************************************)
(* Claims about SafetyAgent                                                *)
(***************************************************************************)

\* The checked message contains the word "matar", in any letter case.
HasWordMatar == \E i \in 1..Len(safety_request.words) : Lower(safety_request.words[i]) = Words.matar

\* C2: once SafetyAgent.process has run its quick check on a message that
\* matches at least one risk category, the check has returned without any call
\* to generate_text, with is_safe false and action_required block_request; a
\* message containing the word "matar" is such a message and its verdict lists
\* violence.
C2_QuickMatchBlocksWithoutStageB ==
    (safety_pc # "idle" /\ (safety_quick.risk_categories # << >> \/ HasWordMatar)) =>
        /\ safety_pc = "done"
        /\ safety_calls = 0
        /\ ~safety_result.is_safe
        /\ safety_result.action_required = "block_request"
        /\ HasWordMatar => InSeq("violence", safety_result.risk_categories)

\* A message with the word "Matar" was blocked for violence without Stage B.
C2_Witness ==
    /\ safety_pc = "done"
    /\ InSeq(Words.Matar, safety_request.words)
    /\ safety_calls = 0
    /\ safety_result.action_required = "block_request"
    /\ InSeq("violence", safety_result.risk_categories)

\* No line of the answer starts with one of the labels.
NoLabelledLine(lines) ==
    \A i \in 1..Len(lines) :
        lines[i].head \notin {"SEGURANÇA", "PONTUAÇÃO", "RISCOS", "RECOMENDAÇÃO"}

\* C5: when the quick check passed and Stage B failed totally (the upstream
\* call failed, or the returned text has none of the labelled lines), the
\* verdict is is_safe true, safety_score 0.7, action_required
\* proceed_with_caution.
C5_StageBFailureIsCautious ==
    (/\ safety_pc = "done"
     /\ safety_calls = 1
     /\ (safety_outcome.upstream = "fail" \/ NoLabelledLine(safety_outcome.payload))) =>
        /\ safety_result.is_safe
        /\ safety_result.safety_score = Num(7)
        /\ safety_result.action_required = "proceed_with_caution"

\* C12: every safety score lies in [0, 1]: the safety_score of the verdict
\* SafetyAgent.process returns, and the response_safety_score that
\* validate_response_safety returns for an outbound text.
C12_SafetyScoresInUnitInterval ==
    LET InUnitInterval(x) == ~x.nan /\ x.inf = 0 /\ x.v >= 0 /\ x.v <= 10
    IN  /\ safety_pc = "done" => InUnitInterval(safety_result.safety_score)
        /\ validation.valid => InUnitInterval(validation.response_safety_score)

\* C13: every verdict of SafetyAgent.process with action_required
\* block_request names at least one risk category and carries a
\* safety_message.
C13_BlockHasCategoryAndMessage ==
    (safety_pc = "done" /\ safety_result.action_required = "block_request") =>
        /\ safety_result.risk_categories # << >>
        /\ safety_result.safety_message # NoMessage

\* C22: whenever the Stage B answer has the line "RECOMENDAÇÃO: BLOQUEAR",
\* the verdict has is_safe false and action_required block_request.
C22_BlockLineForcesBlock ==
    (/\ safety_pc = "done"
     /\ safety_calls = 1
     /\ InSeq(Line("RECOMENDAÇÃO", <<"BLOQUEAR">>), safety_outcome.payload)) =>
        /\ ~safety_result.is_safe
        /\ safety_result.action_required = "block_request"

\* C24: a Stage B answer without a line "PONTUAÇÃO:" whose value is a number
\* gives a verdict with safety_score 0.8, and its last recommendation line, if
\* any, still decides action_required.
C24_UnparseableScoreDefaults ==
    (/\ safety_pc = "done"
     /\ safety_calls = 1
     /\ \A i \in 1..Len(safety_outcome.payload) :
            ~(/\ safety_outcome.payload[i].head = "PONTUAÇÃO"
              /\ safety_outcome.payload[i].rest[1] \in FloatLiterals)) =>
        /\ safety_result.safety_score = Num(8)
        /\ ~safety_result.fallback_used
        /\ \A i \in 1..Len(safety_outcome.payload) :
              (/\ safety_outcome.payload[i].head = "RECOMENDAÇÃO"
               /\ \A j \in (i + 1)..Len(safety_outcome.payload) :
                      safety_outcome.payload[j].head # "RECOMENDAÇÃO") =>
                 safety_result.action_required =
                     (IF safety_outcome.payload[i].rest = <<"BLOQUEAR">> THEN "block_request"
                      ELSE IF safety_outcome.payload[i].rest = <<"REVISAR">>
                           THEN "proceed_with_caution"
                      ELSE "proceed")

\* The answer "PONTUAÇÃO: alta", "RECOMENDAÇÃO: REVISAR" gave 0.8 and
\* proceed_with_caution.
C24_Witness ==
    /\ safety_pc = "done"
    /\ safety_outcome.payload =
           <<Line("PONTUAÇÃO", <<"alta">>), Line("RECOMENDAÇÃO", <<"REVISAR">>)>>
    /\ safety_result.safety_score = Num(8)
    /\ safety_result.action_required = "proceed_with_caution"

\* C30: the safety_message of every unsafe verdict is the message of the
\* highest-priority category of the verdict, in the language of the request.
C30_MessageInRequestLanguage ==
    (safety_pc = "done" /\ ~safety_result.is_safe) =>
        safety_result.safety_message =
            GetSafetyMessage(safety_result.risk_categories, safety_request.language)

Undecodable(text) ==
    \/ Find(text, "{") = 0
    \/ RFind(text, "}") < Find(text, "{")
    \/ \E i \in (Find(text, "{") + 1)..(RFind(text, "}") - 1) : text[i].t # "field"

\* C4: when the router's AI pass failed (the upstream call failed, or the
\* returned text does not decode as a JSON object), RouterAgent.process returns
\* the decision of the keyword rules applied to the message, with confidence
\* 0.7; for "quero fazer um curso de energia solar" that is LEARNING_GUIDANCE.
C4_FailedAIPassUsesKeywordRules ==
    (/\ router_pc = "done"
     /\ (router_outcome.upstream = "fail" \/ Undecodable(router_outcome.payload))) =>
        /\ router_result = FallbackRouting(router_request)
        /\ router_result.confidence = Num(7)
        /\ router_request.words = ScenarioAWords =>
              router_result.recommended_task = JStr("LEARNING_GUIDANCE")

\* C10: every routing result returned by RouterAgent.process has a confidence
\* that is a number in [0, 1].
C10_ConfidenceInUnitInterval ==
    router_pc = "done" =>
        /\ ~router_result.confidence.nan
        /\ router_result.confidence.inf = 0
        /\ router_result.confidence.v >= 0
        /\ router_result.confidence.v <= 10

\* C11: every routing result returned by RouterAgent.process has a
\* suggested_agents that is a list with at least one name.
C11_SuggestedAgentsNonEmpty ==
    router_pc = "done" =>
        /\ router_result.suggested_agents.type = "array"
        /\ router_result.suggested_agents.items # << >>

\* C14: the recommended_task of every routing result returned by
\* RouterAgent.process is one of the five task category names.
C14_RecommendedTaskIsCategory ==
    router_pc = "done" =>
        /\ router_result.recommended_task.type = "string"
        /\ router_result.recommended_task.str \in
              {"AWARENESS", "CAREER_EXPLORATION", "SKILL_ASSESSMENT", "LEARNING_GUIDANCE",
               "PATHWAY_PLANNING"}

C20_AgentsAlwaysReturn ==
    /\ router_pc = "done" =>
          /\ router_result # NoRouting
          /\ router_result.reasoning # ""
          /\ ParseRoutingResponse(router_outcome.payload).raises # "" =>
                router_result = FallbackRouting(router_request)
    /\ safety_pc = "done" =>
          /\ safety_result # NoResult
          /\ safety_result.action_required \in {"proceed", "proceed_with_caution", "block_request"}

\* The upstream answer had a null confidence, float() raised TypeError, and
\* process returned the keyword rules' routing.
C20_Witness ==
    /\ router_pc = "done"
    /\ router_outcome.upstream = "ok"
    /\ Get(router_outcome.payload, "confidence", JNum(Num(5))) = JNull
    /\ ParseRoutingResponse(router_outcome.payload).raises = "TypeError"
    /\ router_result = FallbackRouting(router_request)

\* C23: when RouterAgent.process falls back to the keyword rules, the task is
\* LEARNING_GUIDANCE for a message with "curso"; else CAREER_EXPLORATION for
\* one with "emprego"; else SKILL_ASSESSMENT for one with "habilidade"; else
\* PATHWAY_PLANNING for one with "plano"; else AWARENESS; the confidence is
\* 0.7.
C23_FirstMatchingRuleWins ==
    (router_pc = "done" /\ ParseRoutingResponse(router_outcome.payload).raises # "") =>
        /\ router_result.recommended_task =
              JStr(IF InSeq(Words.curso, router_request.words) THEN "LEARNING_GUIDANCE"
                   ELSE IF InSeq(Words.emprego, router_request.words)
                        THEN "CAREER_EXPLORATION"
                   ELSE IF InSeq(Words.habilidade, router_request.words)
                        THEN "SKILL_ASSESSMENT"
                   ELSE IF InSeq(Words.plano, router_request.words) THEN "PATHWAY_PLANNING"
                   ELSE "AWARENESS")
        /\ router_result.confidence = Num(7)

\* The keyword rules routed a message with both "emprego" and "curso" to
\* LEARNING_GUIDANCE.
C23_Witness ==
    /\ router_pc = "done"
    /\ ParseRoutingResponse(router_outcome.payload).raises # ""
    /\ router_request.words = <<Words.emprego, Words.curso>>
    /\ router_result.recommended_task = JStr("LEARNING_GUIDANCE")
    /\ router_result.confidence = Num(7)

(***************************************************************************)
(* Claims about process_request                                            *)
(***************************************************************************)

\* C1: for every request process_request handles, the safety check has been
\* called before the router, and for a message the check blocks neither the
\* router nor a handler is called.
C1_SafetyCheckBeforeRouting ==
    assist_pc # "idle" =>
        /\ InSeq("router_agent", assist_invoked) =>
              (assist_invoked[1] = "safety_agent" /\ assist_invoked[2] = "router_agent")
        /\ InSeq(Words.Matar, assist_request.words) => ~InSeq("router_agent", assist_invoked)

\* C3: the caller receives the generic failure only when the handler raised.
C3_FailureOnlyWhenHandlerRaised ==
    assist_pc = "failed" => assist_raised = "handler"

\* C15: the step in which the dispatched handler raises ends the request as
\* failed, logs one "assistant_error" event and no other, answers the generic
\* failure (status 500, no response text, the fixed detail) and leaves the
\* persona's interaction counter as it was.
C15_HandlerFailureIsGeneric ==
    [][(assist_pc = "handling" /\ assist_raised' = "handler") =>
          /\ assist_pc' = "failed"
          /\ assist_events' = Append(assist_events, "assistant_error")
          /\ assist_reply'.status = 500
          /\ assist_reply'.response = ""
          /\ assist_reply'.detail = "Failed to process assistant request"
          /\ interaction_count' = interaction_count]_vars

\* A request dispatched to the learning handler ended with that handler raising.
C15_Witness ==
    /\ assist_pc = "failed"
    /\ assist_raised = "handler"
    /\ assist_agent = "learning_agent"
    /\ assist_events = <<"assistant_error">>

\* C16: the persona's interaction_count and the number of interaction events
\* both equal the number of requests answered successfully.
C16_CountEqualsSuccesses ==
    LET successes == IF assist_pc = "done" THEN 1 ELSE 0
        interactions ==
            Cardinality({i \in 1..Len(assist_events) : assist_events[i] = "assistant_interaction"})
    IN  /\ interaction_count = successes
        /\ interactions = successes

\* C17: the response text of a successful answer is the text the dispatched
\* handler produced.
C17_ResponseIsHandlerText ==
    assist_pc = "done" => assist_reply.response = assist_agent_result.text

\* C18: when process_request has finished, the request has the fields it was
\* received with.
C18_RequestUnchanged ==
    assist_pc \in {"done", "failed"} => assist_request = assist_entry

\* C29: a finished request has logged exactly one outcome event: the
\* interaction event when the caller received a response, the error event
\* otherwise.
C29_ExactlyOneOutcomeEvent ==
    assist_pc \in {"done", "failed"} =>
        assist_events = IF assist_reply.status = 200 THEN <<"assistant_interaction">>
                        ELSE <<"assistant_error">>
====
